---- MODULE Spec2Model ----
(***************************************************************************)
(* The MSSQL transaction handle of welds-connections                       *)
(* (src/welds-connections/src/mssql/transaction.rs): the transaction state *)
(* machine, the take_conn/return_conn connection cell, the completion      *)
(* channel written by Drop, and the statements the driver receives.        *)
(*                                                                         *)
(* Every async fn is a future: the step that calls it runs its body up to  *)
(* the first .await, one step per driver reply resumes it up to the next   *)
(* .await or its return, and a future may be dropped at an .await (Cancel).*)
(* A panic (assert!, unwrap) ends the call with the result "fault" and     *)
(* unwinds: the locals of the future are dropped.                          *)
(***************************************************************************)
EXTENDS Integers, Sequences, FiniteSets, TLC

\* Futures of &self methods that may be in flight on one handle at a time.
MaxInFlight == 2
\* Calls made on one handle after new.
MaxCalls == 3
\* Longest fetch_many batch.
MaxBatch == 2
\* Longest sequence of take_conn / return_conn calls made on a bare cell.
MaxCellCalls == 6
\* Tasks that call MssqlTransaction::new concurrently, and calls they make.
MaxCallers == 2
MaxNews == 3
\* Connections of a native pool, and fetch_many calls made on its client.
MaxPool == 2
MaxFetchCalls == 2

VARIABLES
    CALL_COUNT,   \* static CALL_COUNT: AtomicUsize
    handle,       \* where the MssqlTransaction value is:
                  \*   "unborn"  new not called yet
                  \*   "building" local `this` of the new future
                  \*   "live"    owned by the caller
                  \*   "moved"   owned by a commit/rollback future (self by value)
                  \*   "dropped" Drop has run
    trans_name,   \* self.trans_name
    state,        \* self.state
    done,         \* self.done: "Some" or "None"
    chan,         \* the values sent on the oneshot channel, oldest first
    conn,         \* the cell self.conn: "Some" (full) or "None" (empty)
    poisoned,     \* the Mutex of the cell is poisoned
    ops,          \* slot -> the future in flight in that slot
    wire,         \* the statements the driver received, oldest first
    calls,        \* number of calls made on the handle
    ret,          \* what the step just taken returned to the caller
    trace,        \* the take_conn / return_conn calls made on a bare cell, with
                  \* their outcomes, oldest first
    news,         \* caller -> where that caller's MssqlTransaction::new call is
    handed,       \* the counter values get_trans_count handed out, oldest first
    pool,         \* self.pool of a MySQL / Postgres / SQLite client: which of
                  \* the three it is, settled by the first call made on it,
                  \* and the connections idle in it
    fetching,     \* slot -> the fetch_many future in flight on that client
    served,       \* slot -> the statements the pool ran for the call in that
                  \* slot, or for the call that just returned from it
    answer,       \* what the fetch_many step just taken returned
    fetch_calls   \* number of fetch_many calls made on the client

vars == <<CALL_COUNT, handle, trans_name, state, done, chan, conn, poisoned,
          ops, wire, calls, ret>>
\* What the operations of a transaction handle leave alone
\* The native-pool client
native == <<pool, fetching, served, answer, fetch_calls>>
aux == <<trace, news, handed, native>>
vars_but_count == <<handle, trans_name, state, done, chan, conn, poisoned,
                    ops, wire, calls, ret>>
allvars == <<vars, aux>>

Slots == 1..MaxInFlight
Callers == 1..MaxCallers
Backends == {"mysql", "postgres", "sqlite"}
\* The statement texts the caller passes: two, so that an order shows
Sqls == {"SELECT A", "SELECT B"}

\* The batches the caller passes to fetch_many: of every length up to
\* MaxBatch, neighbours differing so that an order shows
Other(sql) == CHOOSE x \in Sqls : x /= sql
Alternating(first, n) == [i \in 1..n |-> IF i % 2 = 1 THEN first ELSE Other(first)]
Batches == {Alternating(first, n) : first \in Sqls, n \in 0..MaxBatch}

RECURSIVE Sum(_)
Sum(q) == IF q = <<>> THEN 0 ELSE Head(q) + Sum(Tail(q))

----------------------------------------------------------------------------
\* Values

\* enum State
Open == "Open"
Rolledback == "Rolledback"
Commited == "Commited"

\* No future in the slot.
Idle == [kind |-> "idle", call |-> 0, pc |-> "none", local_conn |-> FALSE,
         fetches |-> <<>>, results |-> <<>>, w |-> 0]

Future(kind, call, pc, fetches, results, w) ==
    [kind |-> kind, call |-> call, pc |-> pc, local_conn |-> TRUE,
     fetches |-> fetches, results |-> results, w |-> w]

\* A statement on the wire; reply is "pending" until the driver answers.
Stmt(verb, arg, call) == [verb |-> verb, arg |-> arg, call |-> call, reply |-> "pending"]

\* What a step returned: res is "none" (the step returned nothing to the
\* caller), "ok", "err" or "fault"; val is the payload as a sequence:
\*   execute Ok      <<rows_affected>>
\*   fetch_rows Ok   <<w>>        the rows the driver returned for wire[w]
\*   fetch_many Ok   <<w1, ...>>  one row set per statement
\*   Err             <<w>>        the error the driver returned for wire[w]
Ret(op, call, res, val) == [op |-> op, call |-> call, res |-> res, val |-> val]
NoRet == Ret("none", 0, "none", <<>>)

\* What a call returns at its end: a fault when return_conn was reached and
\* panicked, else its Result (Ok with okval, or the driver's error for wire[w])
Outcome(op, call, w, returned, r, result, okval) ==
    IF returned /\ r.fault THEN Ret(op, call, "fault", <<>>)
    ELSE IF result = "ok" THEN Ret(op, call, "ok", okval)
    ELSE Ret(op, call, "err", <<w>>)

\* format!("t_{}", n)
format_name(n) == <<"t_", n>>


----------------------------------------------------------------------------
\* The connection cell (take_conn / return_conn act like a CellRef)

\* take_conn without its assert: an empty cell is swapped out as it is
take_conn_unchecked ==
    IF poisoned THEN [fault |-> TRUE, conn |-> conn, poisoned |-> TRUE]
    ELSE [fault |-> FALSE, conn |-> "None", poisoned |-> FALSE]
\* return_conn without its assert: a full cell is overwritten
return_conn_overwrites(cell) ==
    IF poisoned THEN [fault |-> TRUE, conn |-> cell, poisoned |-> TRUE]
    ELSE [fault |-> FALSE, conn |-> "Some", poisoned |-> FALSE]

\* fn take_conn(&self) -> DbConn.  lock().unwrap() panics on a poisoned
\* mutex; the assert panics on an empty cell while the guard is alive, which
\* poisons the mutex.  Otherwise the connection is swapped out of the cell.
take_conn ==
    IF poisoned THEN [fault |-> TRUE, conn |-> conn, poisoned |-> TRUE]
    ELSE IF conn /= "Some" THEN [fault |-> TRUE, conn |-> conn, poisoned |-> TRUE]
    ELSE [fault |-> FALSE, conn |-> "None", poisoned |-> FALSE]

\* fn return_conn(&self, conn: DbConn), called on the cell `cell`.  On a
\* panic the connection passed in is dropped with `placeholder`.
return_conn(cell) ==
    IF poisoned THEN [fault |-> TRUE, conn |-> cell, poisoned |-> TRUE]
    ELSE IF cell /= "None" THEN [fault |-> TRUE, conn |-> cell, poisoned |-> TRUE]
    ELSE [fault |-> FALSE, conn |-> "Some", poisoned |-> FALSE]

\* A load in place of the fetch_add: the static is left as it was
fetch_add_stores_nothing == CALL_COUNT
\* CALL_COUNT.fetch_add(1, SeqCst): the value it leaves in the static
fetch_add_stores == CALL_COUNT + 1
\* fn get_trans_count: CALL_COUNT.fetch_add(1, SeqCst) + 1, the value
\* before the add plus one; the add and the read are one atomic step
get_trans_count == CALL_COUNT + 1

----------------------------------------------------------------------------
\* impl Drop for MssqlTransaction

\* Drop with its test the wrong way round
drop_value_inverted(st) == IF st /= Open THEN TRUE ELSE FALSE
\* Drop that signals true whatever the state
drop_value_always_true(st) == TRUE
\* The value Drop sends when it runs in state st.
drop_value(st) == IF st /= Open THEN FALSE ELSE TRUE

\* The channel after Drop ran in state st (done.unwrap() panics on None
\* before anything is sent).
drop_chan(st) == IF done = "Some" THEN Append(chan, drop_value(st)) ELSE chan

----------------------------------------------------------------------------
\* The driver (tiberius): its replies to the three operations the handle uses

Err == [ok |-> FALSE, affected |-> <<>>]
Ok(affected) == [ok |-> TRUE, affected |-> affected]

\* conn.simple_query(sql), conn.query(sql, args), stream.into_results()
SimpleReplies == {Ok(<<>>), Err}
\* conn.execute(sql, args): an ExecuteResult holds one count per statement
ExecReplies == {Ok(<<1>>), Ok(<<2, 1>>), Err}

Sent(verb, arg, call) == Append(wire, Stmt(verb, arg, call))
Replied(w, reply) == [wire EXCEPT ![w].reply = IF reply.ok THEN "ok" ELSE "err"]

----------------------------------------------------------------------------
\* Which driver replies let each operation reach its return_conn call

\* execute with `r?` ahead of return_conn, as new and commit have it
execute_returns_conn_after_try(reply) == reply.ok
\* fetch_rows with `results?` ahead of return_conn
fetch_rows_returns_conn_after_try(reply) == reply.ok
\* new: `conn.simple_query(sql).await?` precedes `this.return_conn(conn)`
new_returns_conn(reply) == reply.ok
\* commit: `conn.simple_query(sql).await?` precedes `self.return_conn(conn)`
commit_returns_conn(reply) == reply.ok
\* rollback, rollback_internal: `let _ = conn.simple_query(sql).await;`
rollback_returns_conn(reply) == TRUE
\* execute: `self.return_conn(conn); let r = r?;`
execute_returns_conn(reply) == TRUE
\* fetch_rows: `self.return_conn(conn); let rows = results?;`
fetch_rows_returns_conn(reply) == TRUE
\* fetch_many: `self.return_conn(conn)` follows the loop
fetch_many_returns_conn(results) == TRUE

\* rollback that propagates the driver's error with `?`
rollback_result_propagated(reply) == IF reply.ok THEN "ok" ELSE "err"
\* The Result each operation returns for the driver's reply: `?` propagates
\* the error, `let _ =` of rollback discards it
new_result(reply) == IF reply.ok THEN "ok" ELSE "err"
commit_result(reply) == IF reply.ok THEN "ok" ELSE "err"
rollback_result(reply) == "ok"
execute_result(reply) == IF reply.ok THEN "ok" ELSE "err"
fetch_rows_result(reply) == IF reply.ok THEN "ok" ELSE "err"
\* commit that leaves self.state alone
commit_state_not_set == Open
\* The state commit and rollback set before they take the connection
commit_state == Commited
rollback_state == Rolledback

\* commit that only refuses a second commit
commit_assert_not_commited(st) == st /= Commited
\* fetch_rows without its assert_eq!
fetch_rows_assert_missing(st) == TRUE
\* commit and execute without their assert_eq!
commit_assert_missing(st) == TRUE
execute_assert_missing(st) == TRUE
\* rollback without its early return
rollback_never_noop(st) == FALSE
\* `assert_eq!(self.state, State::Open)` of each operation that has one
commit_assert(st) == st = Open
rollback_assert(st) == st = Open
rollback_internal_assert(st) == st = Open
execute_assert(st) == st = Open
fetch_rows_assert(st) == st = Open
fetch_many_assert(st) == st = Open
\* rollback, rollback_internal: early `return Ok(())` when already Rolledback
rollback_is_noop(st) == st = Rolledback

\* results.drain(..).collect::<Result<Vec<_>>>(): the first Err, or every Ok
RECURSIVE collect(_, _)
collect(results, acc) ==
    IF results = <<>> THEN [res |-> "ok", val |-> acc]
    ELSE IF ~Head(results).ok THEN [res |-> "err", val |-> <<Head(results).w>>]
    ELSE collect(Tail(results), Append(acc, Head(results).w))

----------------------------------------------------------------------------
\* A slot of the native-pool client with no fetch_many in flight
NoFetch == [kind |-> "idle", call |-> 0, pc |-> "none", conn |-> 0,
            fetches |-> <<>>, i |-> 0, datasets |-> <<>>]
\* No fetch_many call of the native-pool client returned in the step
NoAnswer == [slot |-> 0, call |-> 0, res |-> "none", val |-> <<>>]

NoFuture == \A s \in Slots : ops[s].kind = "idle"
\* &self methods: the handle is live and no future owns or &mut-borrows it;
\* the new future goes in the first free slot
Shareable(s) ==
    /\ handle = "live"
    /\ ops[s].kind = "idle"
    /\ \A o \in Slots : o < s => ops[o].kind /= "idle"
    /\ \A o \in Slots : ops[o].kind \in {"idle", "execute", "fetch_rows", "fetch_many"}
    /\ calls < MaxCalls
\* self / &mut self methods: nothing else borrows the handle
Exclusive == handle = "live" /\ NoFuture /\ calls < MaxCalls

Init ==
    /\ CALL_COUNT = 0
    /\ handle = "unborn"
    /\ trans_name = <<>>
    /\ state = "unset"
    /\ done = "unset"
    /\ chan = <<>>
    /\ conn = "Some"
    /\ poisoned = FALSE
    /\ ops = [s \in Slots |-> Idle]
    /\ wire = <<>>
    /\ calls = 0
    /\ ret = NoRet
    /\ trace = <<>>
    /\ news = [c \in Callers |-> [pc |-> "idle", name |-> <<>>]]
    /\ handed = <<>>
    /\ pool = [backend |-> "unset", idle |-> 1..MaxPool]
    /\ fetching = [s \in Slots |-> NoFetch]
    /\ served = [s \in Slots |-> <<>>]
    /\ answer = NoAnswer
    /\ fetch_calls = 0

\* pub async fn new(done, conn): up to the .await of BEGIN TRANSACTION
new ==
    /\ handle = "unborn"
    /\ CALL_COUNT' = fetch_add_stores
    /\ trans_name' = format_name(get_trans_count)
    /\ state' = Open
    /\ LET t == take_conn IN
        /\ conn' = t.conn
        /\ poisoned' = t.poisoned
        /\ IF t.fault
           THEN /\ handle' = "dropped"
                /\ done' = "None"
                /\ chan' = Append(chan, drop_value(Open))
                /\ ret' = Ret("new", 0, "fault", <<>>)
                /\ UNCHANGED <<ops, wire>>
           ELSE /\ handle' = "building"
                /\ done' = "Some"
                /\ wire' = Sent("BEGIN TRANSACTION", format_name(get_trans_count), 0)
                /\ ops' = [ops EXCEPT ![1] =
                              Future("new", 0, "simple_query", <<>>, <<>>, Len(wire) + 1)]
                /\ ret' = NoRet
                /\ UNCHANGED chan
    /\ UNCHANGED calls
    /\ UNCHANGED aux

\* new, from the driver's reply to BEGIN TRANSACTION to its return
new_resume ==
    /\ ops[1].kind = "new"
    /\ \E reply \in SimpleReplies :
        LET r == return_conn(conn)
            out == Outcome("new", 0, ops[1].w, new_returns_conn(reply), r,
                           new_result(reply), <<>>)
        IN
        /\ wire' = Replied(ops[1].w, reply)
        /\ ops' = [ops EXCEPT ![1] = Idle]
        /\ IF new_returns_conn(reply)
           THEN conn' = r.conn /\ poisoned' = r.poisoned
           ELSE UNCHANGED <<conn, poisoned>>
        /\ ret' = out
        /\ IF out.res = "ok"
           THEN \* Ok(this): the handle goes to the caller
                /\ handle' = "live"
                /\ UNCHANGED <<done, chan>>
           ELSE \* `?` or a panic: `this` is dropped with the other locals
                /\ handle' = "dropped"
                /\ done' = "None"
                /\ chan' = drop_chan(state)
    /\ UNCHANGED <<CALL_COUNT, trans_name, state, calls>>
    /\ UNCHANGED aux

\* Drop with its last-resort rollback in place: an Open transaction is
\* rolled back inline, on the connection taken out of the cell
teardown_with_rollback ==
    /\ handle = "live"
    /\ NoFuture
    /\ handle' = "dropped"
    /\ done' = "None"
    /\ chan' = drop_chan(state)
    /\ IF state = Open
       THEN LET t == take_conn IN
            /\ conn' = t.conn
            /\ poisoned' = t.poisoned
            /\ wire' = IF t.fault THEN wire ELSE Sent("ROLLBACK", trans_name, calls)
       ELSE UNCHANGED <<conn, poisoned, wire>>
    /\ ret' = NoRet
    /\ UNCHANGED <<CALL_COUNT, trans_name, state, ops, calls>>
    /\ UNCHANGED aux

\* The caller lets the handle go out of scope
teardown ==
    /\ handle = "live"
    /\ NoFuture
    /\ handle' = "dropped"
    /\ done' = "None"
    /\ chan' = drop_chan(state)
    /\ ret' = IF done = "Some" THEN NoRet ELSE Ret("drop", 0, "fault", <<>>)
    /\ UNCHANGED <<CALL_COUNT, trans_name, state, conn, poisoned, ops, wire, calls>>
    /\ UNCHANGED aux


\* pub async fn commit(mut self): up to the .await of COMMIT TRANSACTION.
\* self is owned by the future: a panic or a return drops it.
commit ==
    /\ Exclusive
    /\ calls' = calls + 1
    /\ IF ~commit_assert(state)
       THEN /\ handle' = "dropped"
            /\ done' = "None"
            /\ chan' = drop_chan(state)
            /\ ret' = Ret("commit", calls + 1, "fault", <<>>)
            /\ UNCHANGED <<state, conn, poisoned, ops, wire>>
       ELSE LET t == take_conn IN
            /\ state' = commit_state
            /\ conn' = t.conn
            /\ poisoned' = t.poisoned
            /\ IF t.fault
               THEN /\ handle' = "dropped"
                    /\ done' = "None"
                    /\ chan' = drop_chan(commit_state)
                    /\ ret' = Ret("commit", calls + 1, "fault", <<>>)
                    /\ UNCHANGED <<ops, wire>>
               ELSE /\ handle' = "moved"
                    /\ wire' = Sent("COMMIT TRANSACTION", trans_name, calls + 1)
                    /\ ops' = [ops EXCEPT ![1] =
                          Future("commit", calls + 1, "simple_query", <<>>, <<>>, Len(wire) + 1)]
                    /\ ret' = NoRet
                    /\ UNCHANGED <<done, chan>>
    /\ UNCHANGED <<CALL_COUNT, trans_name>>
    /\ UNCHANGED aux

\* commit, from the driver's reply to COMMIT TRANSACTION to its return
commit_resume ==
    /\ ops[1].kind = "commit"
    /\ \E reply \in SimpleReplies :
        LET r == return_conn(conn) IN
        /\ wire' = Replied(ops[1].w, reply)
        /\ ops' = [ops EXCEPT ![1] = Idle]
        /\ IF commit_returns_conn(reply)
           THEN conn' = r.conn /\ poisoned' = r.poisoned
           ELSE UNCHANGED <<conn, poisoned>>
        /\ ret' = Outcome("commit", ops[1].call, ops[1].w, commit_returns_conn(reply), r,
                          commit_result(reply), <<>>)
    /\ handle' = "dropped"
    /\ done' = "None"
    /\ chan' = drop_chan(state)
    /\ UNCHANGED <<CALL_COUNT, trans_name, state, calls>>
    /\ UNCHANGED aux

\* pub async fn rollback(mut self): up to the .await of ROLLBACK TRANSACTION
rollback ==
    /\ Exclusive
    /\ calls' = calls + 1
    /\ IF rollback_is_noop(state)
       THEN /\ handle' = "dropped"
            /\ done' = "None"
            /\ chan' = drop_chan(state)
            /\ ret' = Ret("rollback", calls + 1, "ok", <<>>)
            /\ UNCHANGED <<state, conn, poisoned, ops, wire>>
       ELSE IF ~rollback_assert(state)
       THEN /\ handle' = "dropped"
            /\ done' = "None"
            /\ chan' = drop_chan(state)
            /\ ret' = Ret("rollback", calls + 1, "fault", <<>>)
            /\ UNCHANGED <<state, conn, poisoned, ops, wire>>
       ELSE LET t == take_conn IN
            /\ state' = rollback_state
            /\ conn' = t.conn
            /\ poisoned' = t.poisoned
            /\ IF t.fault
               THEN /\ handle' = "dropped"
                    /\ done' = "None"
                    /\ chan' = drop_chan(rollback_state)
                    /\ ret' = Ret("rollback", calls + 1, "fault", <<>>)
                    /\ UNCHANGED <<ops, wire>>
               ELSE /\ handle' = "moved"
                    /\ wire' = Sent("ROLLBACK TRANSACTION", trans_name, calls + 1)
                    /\ ops' = [ops EXCEPT ![1] =
                          Future("rollback", calls + 1, "simple_query", <<>>, <<>>, Len(wire) + 1)]
                    /\ ret' = NoRet
                    /\ UNCHANGED <<done, chan>>
    /\ UNCHANGED <<CALL_COUNT, trans_name>>
    /\ UNCHANGED aux

\* rollback, from the driver's reply to ROLLBACK TRANSACTION to its return
rollback_resume ==
    /\ ops[1].kind = "rollback"
    /\ \E reply \in SimpleReplies :
        LET r == return_conn(conn) IN
        /\ wire' = Replied(ops[1].w, reply)
        /\ ops' = [ops EXCEPT ![1] = Idle]
        /\ IF rollback_returns_conn(reply)
           THEN conn' = r.conn /\ poisoned' = r.poisoned
           ELSE UNCHANGED <<conn, poisoned>>
        /\ ret' = Outcome("rollback", ops[1].call, ops[1].w, rollback_returns_conn(reply), r,
                          rollback_result(reply), <<>>)
    /\ handle' = "dropped"
    /\ done' = "None"
    /\ chan' = drop_chan(state)
    /\ UNCHANGED <<CALL_COUNT, trans_name, state, calls>>
    /\ UNCHANGED aux

\* pub(crate) async fn rollback_internal(&mut self): up to the .await.
\* The handle is borrowed, not owned: it stays with the caller.
rollback_internal ==
    /\ Exclusive
    /\ calls' = calls + 1
    /\ IF rollback_is_noop(state)
       THEN /\ ret' = Ret("rollback_internal", calls + 1, "ok", <<>>)
            /\ UNCHANGED <<state, conn, poisoned, ops, wire>>
       ELSE IF ~rollback_internal_assert(state)
       THEN /\ ret' = Ret("rollback_internal", calls + 1, "fault", <<>>)
            /\ UNCHANGED <<state, conn, poisoned, ops, wire>>
       ELSE LET t == take_conn IN
            /\ state' = rollback_state
            /\ conn' = t.conn
            /\ poisoned' = t.poisoned
            /\ IF t.fault
               THEN /\ ret' = Ret("rollback_internal", calls + 1, "fault", <<>>)
                    /\ UNCHANGED <<ops, wire>>
               ELSE /\ wire' = Sent("ROLLBACK TRANSACTION", trans_name, calls + 1)
                    /\ ops' = [ops EXCEPT ![1] =
                          Future("rollback_internal", calls + 1, "simple_query",
                                 <<>>, <<>>, Len(wire) + 1)]
                    /\ ret' = NoRet
    /\ UNCHANGED <<CALL_COUNT, handle, trans_name, done, chan>>
    /\ UNCHANGED aux

\* rollback_internal, from the driver's reply to its return
rollback_internal_resume ==
    /\ ops[1].kind = "rollback_internal"
    /\ \E reply \in SimpleReplies :
        LET r == return_conn(conn) IN
        /\ wire' = Replied(ops[1].w, reply)
        /\ ops' = [ops EXCEPT ![1] = Idle]
        /\ IF rollback_returns_conn(reply)
           THEN conn' = r.conn /\ poisoned' = r.poisoned
           ELSE UNCHANGED <<conn, poisoned>>
        /\ ret' = Outcome("rollback_internal", ops[1].call, ops[1].w, rollback_returns_conn(reply), r,
                          rollback_result(reply), <<>>)
    /\ UNCHANGED <<CALL_COUNT, handle, trans_name, state, done, chan, calls>>
    /\ UNCHANGED aux


----------------------------------------------------------------------------
\* impl Client for MssqlTransaction

\* async fn execute(&self, sql, params): up to the .await of conn.execute
execute(s, sql) ==
    /\ Shareable(s)
    /\ calls' = calls + 1
    /\ IF ~execute_assert(state)
       THEN /\ ret' = Ret("execute", calls + 1, "fault", <<>>)
            /\ UNCHANGED <<conn, poisoned, ops, wire>>
       ELSE LET t == take_conn IN
            /\ conn' = t.conn
            /\ poisoned' = t.poisoned
            /\ IF t.fault
               THEN /\ ret' = Ret("execute", calls + 1, "fault", <<>>)
                    /\ UNCHANGED <<ops, wire>>
               ELSE /\ wire' = Sent("execute", sql, calls + 1)
                    /\ ops' = [ops EXCEPT ![s] =
                          Future("execute", calls + 1, "execute", <<sql>>, <<>>, Len(wire) + 1)]
                    /\ ret' = NoRet
    /\ UNCHANGED <<CALL_COUNT, handle, trans_name, state, done, chan>>
    /\ UNCHANGED aux

\* execute, from the driver's reply to its return
execute_resume(s) ==
    /\ ops[s].kind = "execute"
    /\ \E reply \in ExecReplies :
        LET r == return_conn(conn) IN
        /\ wire' = Replied(ops[s].w, reply)
        /\ ops' = [ops EXCEPT ![s] = Idle]
        /\ IF execute_returns_conn(reply)
           THEN conn' = r.conn /\ poisoned' = r.poisoned
           ELSE UNCHANGED <<conn, poisoned>>
        /\ ret' = Outcome("execute", ops[s].call, ops[s].w, execute_returns_conn(reply), r,
                          execute_result(reply), <<Sum(reply.affected)>>)
    /\ UNCHANGED <<CALL_COUNT, handle, trans_name, state, done, chan, calls>>
    /\ UNCHANGED aux

\* async fn fetch_rows(&self, sql, params): up to the .await of conn.query
\* inside fetch_rows_inner
fetch_rows(s, sql) ==
    /\ Shareable(s)
    /\ calls' = calls + 1
    /\ IF ~fetch_rows_assert(state)
       THEN /\ ret' = Ret("fetch_rows", calls + 1, "fault", <<>>)
            /\ UNCHANGED <<conn, poisoned, ops, wire>>
       ELSE LET t == take_conn IN
            /\ conn' = t.conn
            /\ poisoned' = t.poisoned
            /\ IF t.fault
               THEN /\ ret' = Ret("fetch_rows", calls + 1, "fault", <<>>)
                    /\ UNCHANGED <<ops, wire>>
               ELSE /\ wire' = Sent("query", sql, calls + 1)
                    /\ ops' = [ops EXCEPT ![s] =
                          Future("fetch_rows", calls + 1, "query", <<sql>>, <<>>, Len(wire) + 1)]
                    /\ ret' = NoRet
    /\ UNCHANGED <<CALL_COUNT, handle, trans_name, state, done, chan>>
    /\ UNCHANGED aux

\* fetch_rows_inner between its two awaits: conn.query(..).await succeeded,
\* stream.into_results().await is next
fetch_rows_inner_stream(s) ==
    /\ ops[s].kind \in {"fetch_rows", "fetch_many"}
    /\ ops[s].pc = "query"
    /\ ops' = [ops EXCEPT ![s].pc = "into_results"]
    /\ ret' = NoRet
    /\ UNCHANGED <<CALL_COUNT, handle, trans_name, state, done, chan, conn,
                   poisoned, wire, calls>>
    /\ UNCHANGED aux

\* fetch_rows, from the reply that ends fetch_rows_inner (an error of
\* conn.query, or the outcome of into_results) to its return
fetch_rows_resume(s) ==
    /\ ops[s].kind = "fetch_rows"
    /\ \E reply \in SimpleReplies :
        LET r == return_conn(conn) IN
        /\ ops[s].pc = "query" => ~reply.ok
        /\ wire' = Replied(ops[s].w, reply)
        /\ ops' = [ops EXCEPT ![s] = Idle]
        /\ IF fetch_rows_returns_conn(reply)
           THEN conn' = r.conn /\ poisoned' = r.poisoned
           ELSE UNCHANGED <<conn, poisoned>>
        /\ ret' = Outcome("fetch_rows", ops[s].call, ops[s].w, fetch_rows_returns_conn(reply), r,
                          fetch_rows_result(reply), <<ops[s].w>>)
    /\ UNCHANGED <<CALL_COUNT, handle, trans_name, state, done, chan, calls>>
    /\ UNCHANGED aux

\* The loop of fetch_many without its `break`
fetch_many_continues_no_break(fetches, results) == Len(results) < Len(fetches)
\* Whether the loop of fetch_many runs another statement after `results`
fetch_many_continues(fetches, results) ==
    /\ Len(results) < Len(fetches)
    /\ results /= <<>> => results[Len(results)].ok

\* async fn fetch_many(&self, fetches): up to the first .await; an empty
\* batch has none and returns at once
fetch_many(s, fetches) ==
    /\ Shareable(s)
    /\ calls' = calls + 1
    /\ IF ~fetch_many_assert(state)
       THEN /\ ret' = Ret("fetch_many", calls + 1, "fault", <<>>)
            /\ UNCHANGED <<conn, poisoned, ops, wire>>
       ELSE LET t == take_conn IN
            IF t.fault
            THEN /\ conn' = t.conn
                 /\ poisoned' = t.poisoned
                 /\ ret' = Ret("fetch_many", calls + 1, "fault", <<>>)
                 /\ UNCHANGED <<ops, wire>>
            ELSE IF fetch_many_continues(fetches, <<>>)
            THEN /\ conn' = t.conn
                 /\ poisoned' = t.poisoned
                 /\ wire' = Sent("query", fetches[1], calls + 1)
                 /\ ops' = [ops EXCEPT ![s] =
                       Future("fetch_many", calls + 1, "query", fetches, <<>>, Len(wire) + 1)]
                 /\ ret' = NoRet
            ELSE LET r == return_conn(t.conn) IN
                 /\ IF fetch_many_returns_conn(<<>>)
                    THEN /\ conn' = r.conn
                         /\ poisoned' = r.poisoned
                         /\ ret' = IF r.fault
                                   THEN Ret("fetch_many", calls + 1, "fault", <<>>)
                                   ELSE LET c == collect(<<>>, <<>>)
                                        IN Ret("fetch_many", calls + 1, c.res, c.val)
                    ELSE /\ conn' = t.conn
                         /\ poisoned' = t.poisoned
                         /\ ret' = LET c == collect(<<>>, <<>>)
                                   IN Ret("fetch_many", calls + 1, c.res, c.val)
                 /\ UNCHANGED <<ops, wire>>
    /\ UNCHANGED <<CALL_COUNT, handle, trans_name, state, done, chan>>
    /\ UNCHANGED aux

\* fetch_many, from the reply that ends one fetch_rows_inner to the next
\* .await or to its return
fetch_many_resume(s) ==
    /\ ops[s].kind = "fetch_many"
    /\ \E reply \in SimpleReplies :
        LET results == Append(ops[s].results, [ok |-> reply.ok, w |-> ops[s].w])
            r == return_conn(conn)
            c == collect(results, <<>>)
        IN
        /\ ops[s].pc = "query" => ~reply.ok
        /\ IF fetch_many_continues(ops[s].fetches, results)
           THEN /\ wire' = Append(Replied(ops[s].w, reply),
                                  Stmt("query", ops[s].fetches[Len(results) + 1], ops[s].call))
                /\ ops' = [ops EXCEPT ![s].results = results,
                                      ![s].pc = "query",
                                      ![s].w = Len(wire) + 1]
                /\ ret' = NoRet
                /\ UNCHANGED <<conn, poisoned>>
           ELSE /\ wire' = Replied(ops[s].w, reply)
                /\ ops' = [ops EXCEPT ![s] = Idle]
                /\ IF fetch_many_returns_conn(results)
                   THEN /\ conn' = r.conn
                        /\ poisoned' = r.poisoned
                        /\ ret' = IF r.fault
                                  THEN Ret("fetch_many", ops[s].call, "fault", <<>>)
                                  ELSE Ret("fetch_many", ops[s].call, c.res, c.val)
                   ELSE /\ ret' = Ret("fetch_many", ops[s].call, c.res, c.val)
                        /\ UNCHANGED <<conn, poisoned>>
    /\ UNCHANGED <<CALL_COUNT, handle, trans_name, state, done, chan, calls>>
    /\ UNCHANGED aux

----------------------------------------------------------------------------
\* The caller drops a future at its .await: its locals are dropped, the
\* connection it took with them, and the handle too when the future owns it
\* (`this` of new, `self` of commit and rollback).
cancel(s) ==
    /\ ops[s].kind /= "idle"
    /\ ops' = [ops EXCEPT ![s] = Idle]
    /\ IF ops[s].kind \in {"new", "commit", "rollback"}
       THEN /\ handle' = "dropped"
            /\ done' = "None"
            /\ chan' = drop_chan(state)
       ELSE UNCHANGED <<handle, done, chan>>
    /\ ret' = NoRet
    /\ UNCHANGED <<CALL_COUNT, trans_name, state, conn, poisoned, wire, calls>>
    /\ UNCHANGED aux

Next ==
    \/ new
    \/ new_resume
    \/ commit
    \/ commit_resume
    \/ rollback
    \/ rollback_resume
    \/ rollback_internal
    \/ rollback_internal_resume
    \/ \E s \in Slots, sql \in Sqls : execute(s, sql)
    \/ \E s \in Slots : execute_resume(s)
    \/ \E s \in Slots, sql \in Sqls : fetch_rows(s, sql)
    \/ \E s \in Slots : fetch_rows_inner_stream(s)
    \/ \E s \in Slots : fetch_rows_resume(s)
    \/ \E s \in Slots, fetches \in Batches : fetch_many(s, fetches)
    \/ \E s \in Slots : fetch_many_resume(s)
    \/ \E s \in Slots : cancel(s)
    \/ teardown

Spec == Init /\ [][Next]_allvars


----------------------------------------------------------------------------
\* Vocabulary of the properties

StatementOps == {"execute", "fetch_rows", "fetch_many"}
\* The call returned a Result (it did not panic)
Completed == ret.res \in {"ok", "err"}
\* The wire positions of the statements call c issued, on wire w
IdxOf(w, c) == {i \in DOMAIN w : w[i].call = c}
\* The position of i among the statements of I, in issue order
Rank(I, i) == Cardinality({j \in I : j <= i})
\* This step is the call of op: it returned at once or left a future behind
CalledNow(op) ==
    /\ calls' = calls + 1
    /\ \/ ret'.op = op
       \/ \E s \in Slots : ops[s].kind = "idle" /\ ops'[s].kind = op
\* This step called op and op panicked before touching the cell or the driver
FaultedAtOnce(op) ==
    /\ ret' = Ret(op, calls', "fault", <<>>)
    /\ wire' = wire
    /\ conn' = conn
    /\ poisoned' = poisoned
    /\ ops' = ops
    /\ state' = state
Verbs(v) == {i \in DOMAIN wire : wire[i].verb = v}

----------------------------------------------------------------------------
\* C1: when execute, fetch_rows or fetch_many returns a Result, Ok or Err,
\* the cell is full again: the connection is put back before the error is
\* propagated.
C1_StatementCallsRefillCell ==
    (ret.op \in StatementOps /\ Completed) => conn = "Some"

\* An execute whose statement failed in the driver has returned its error
\* and the cell is full.
C1_Witness ==
    /\ ret.op = "execute"
    /\ ret.res = "err"
    /\ wire[ret.val[1]].reply = "err"
    /\ conn = "Some"

\* C2: when BEGIN TRANSACTION fails, new returns the error with the cell
\* full again.
C2_FailedBeginRefillsCell ==
    (ret.op = "new" /\ ret.res = "err") => conn = "Some"

\* C3: an operation on a begun transaction that returns an error (commit,
\* rollback, rollback_internal, execute, fetch_rows, fetch_many) has put the
\* connection back in the cell first; in particular a failed commit has.
C3_ErrorExitsRefillCell ==
    (ret.op \in StatementOps \cup {"commit", "rollback", "rollback_internal"}
        /\ ret.res = "err") => conn = "Some"

\* C4: nothing is on the completion channel before the handle is torn down;
\* from teardown on it holds exactly one value, true iff the state at
\* teardown was Open, and the sender is gone, so no second value follows.
C4_OneSignalAtTeardown ==
    IF handle = "dropped"
    THEN chan = <<state = Open>> /\ done = "None"
    ELSE chan = <<>>

\* A handle rolled back through rollback_internal and then dropped signalled
\* false.
C4_Witness ==
    /\ handle = "dropped"
    /\ state = Rolledback
    /\ chan = <<FALSE>>
    /\ Verbs("ROLLBACK TRANSACTION") /= {}

\* The statements of the fetch_many future f on wire w: the first
\* Len(f.results) + 1 statements of the batch, in batch order, all answered
\* Ok but the last, which is the only one in flight.
C5_InOrder(w, f) ==
    LET I == IdxOf(w, f.call) IN
    /\ Cardinality(I) = Len(f.results) + 1
    /\ f.w \in I
    /\ \A i \in I :
        /\ i <= f.w
        /\ w[i].verb = "query"
        /\ w[i].arg = f.fetches[Rank(I, i)]
        /\ w[i].reply = IF i = f.w THEN "pending" ELSE "ok"

\* fetch_many returning a Result from the future f: its statements are a
\* prefix of the batch in batch order; if one failed it is the last one sent,
\* the error returned is that statement's and no rows come with it;
\* otherwise the whole batch ran and one row set per statement is returned,
\* in batch order.
C5_Returned(f) ==
    LET I == IdxOf(wire', f.call)
        failed == {i \in I : wire'[i].reply = "err"}
    IN
    /\ \A i \in I : wire'[i].arg = f.fetches[Rank(I, i)] /\ wire'[i].reply /= "pending"
    /\ IF failed /= {}
       THEN /\ \A i \in I : i \in failed <=> Rank(I, i) = Cardinality(I)
            /\ ret'.res = "err"
            /\ ret'.val \in {<<k>> : k \in failed}
       ELSE /\ Cardinality(I) = Len(f.fetches)
            /\ ret'.res = "ok"
            /\ Len(ret'.val) = Cardinality(I)
            /\ \A j \in 1..Len(ret'.val) : ret'.val[j] \in I /\ Rank(I, ret'.val[j]) = j

C5_Step ==
    /\ \A s \in Slots : ops'[s].kind = "fetch_many" => C5_InOrder(wire', ops'[s])
    /\ \A s \in Slots :
        (ops[s].kind = "fetch_many" /\ ret'.op = "fetch_many"
            /\ ret'.call = ops[s].call /\ ret'.res \in {"ok", "err"})
        => C5_Returned(ops[s])
    \* a statement reaches the driver only from a future that is in flight
    /\ \A i \in DOMAIN wire' \ DOMAIN wire :
        \E s \in Slots : ops'[s].kind /= "idle" /\ ops'[s].call = wire'[i].call
                         /\ ops'[s].w = i

\* C5: fetch_many runs the batch one statement at a time in batch order;
\* when statement k is the first to fail it returns the error of statement
\* k, exposes no rows of the statements before k, and no statement after k
\* is sent to the driver.
C5_FetchManyStopsAtFirstError == [][C5_Step]_vars

\* A fetch_many whose second statement failed after its first succeeded has
\* returned the second statement's error.
C5_Witness ==
    /\ ret.op = "fetch_many"
    /\ ret.res = "err"
    /\ LET I == IdxOf(wire, ret.call) IN
        /\ Cardinality(I) = 2
        /\ Rank(I, ret.val[1]) = 2
        /\ \E i \in I : wire[i].reply = "ok"

C6_Step ==
    \A op \in {"rollback", "rollback_internal"} :
        (CalledNow(op) /\ state = Rolledback)
        => /\ ret' = Ret(op, calls', "ok", <<>>)
           /\ wire' = wire
           /\ conn' = conn
           /\ poisoned' = poisoned
           /\ ops' = ops
           /\ state' = Rolledback

\* C6: rollback (and rollback_internal) called on a transaction that is
\* already Rolledback returns Ok at once: no ROLLBACK statement is issued,
\* the cell is not touched and the state stays Rolledback.
C6_RollbackTwiceIsNoop == [][C6_Step]_vars

\* rollback returned Ok on a handle that an earlier rollback_internal had
\* rolled back: one ROLLBACK statement only is on the wire.
C6_Witness ==
    /\ ret = Ret("rollback", calls, "ok", <<>>)
    /\ state = Rolledback
    /\ IdxOf(wire, ret.call) = {}
    /\ \E i \in Verbs("ROLLBACK TRANSACTION") :
        /\ Verbs("ROLLBACK TRANSACTION") = {i}
        /\ wire[i].call < ret.call
        /\ wire[i].reply /= "pending"

\* C7: a rollback (or rollback_internal) that issued its ROLLBACK statement
\* returns Ok with the state Rolledback and the cell full, whatever the
\* driver replied: the driver's failure is not propagated.
C7_RollbackSwallowsDriverError ==
    (ret.op \in {"rollback", "rollback_internal"} /\ IdxOf(wire, ret.call) /= {})
    => /\ ret.res = "ok"
       /\ state = Rolledback
       /\ conn = "Some"

\* rollback returned Ok although the driver failed its ROLLBACK statement.
C7_Witness ==
    /\ ret.op = "rollback"
    /\ ret.res = "ok"
    /\ \E i \in IdxOf(wire, ret.call) :
        wire[i].verb = "ROLLBACK TRANSACTION" /\ wire[i].reply = "err"
    /\ state = Rolledback
    /\ conn = "Some"

\* C8: a commit in flight has set the state to Commited and issued COMMIT
\* TRANSACTION for this transaction; when it returns a Result the state is
\* Commited, and the Result is the driver's error iff the COMMIT failed.
C8_CommitSetsStateAndPropagates ==
    /\ ops[1].kind = "commit"
        => /\ state = Commited
           /\ wire[ops[1].w] = Stmt("COMMIT TRANSACTION", trans_name, ops[1].call)
    /\ (ret.op = "commit" /\ Completed)
        => /\ state = Commited
           /\ \E i \in Verbs("COMMIT TRANSACTION") :
                /\ IdxOf(wire, ret.call) = {i}
                /\ wire[i].arg = trans_name
                /\ wire[i].reply = ret.res
                /\ ret.res = "err" => ret.val = <<i>>

\* commit returned the error of its failed COMMIT and the state is Commited.
C8_Witness ==
    /\ ret.op = "commit"
    /\ ret.res = "err"
    /\ wire[ret.val[1]].verb = "COMMIT TRANSACTION"
    /\ wire[ret.val[1]].reply = "err"
    /\ state = Commited

C9_Step ==
    /\ (CalledNow("commit") /\ state /= Open) => FaultedAtOnce("commit")
    /\ \A op \in {"rollback", "rollback_internal"} :
        (CalledNow(op) /\ state = Commited) => FaultedAtOnce(op)
    /\ state = Commited => state' = Commited
    /\ state' = Commited /\ state /= Commited => state = Open
    /\ Cardinality({i \in DOMAIN wire' : wire'[i].verb = "COMMIT TRANSACTION"}) <= 1

\* C9: commit called in a state other than Open panics, and so does rollback
\* called in state Commited, before any statement is issued and before the
\* cell is touched; the state enters Commited from Open only and never
\* leaves it, and at most one COMMIT reaches the driver.
C9_CommitOnlyFromOpen == [][C9_Step]_vars

\* commit panicked on a handle that rollback_internal had rolled back: the
\* cell is full and untouched, and no COMMIT was issued.
C9_Witness ==
    /\ ret = Ret("commit", calls, "fault", <<>>)
    /\ state = Rolledback
    /\ conn = "Some"
    /\ ~poisoned
    /\ Verbs("COMMIT TRANSACTION") = {}

C10_Step ==
    \A op \in StatementOps :
        (CalledNow(op) /\ state /= Open) => FaultedAtOnce(op)

\* C10: execute, fetch_rows and fetch_many called in a state other than Open
\* panic at once: no statement reaches the driver and the cell is not
\* touched.
C10_StatementsNeedOpen == [][C10_Step]_vars

\* execute panicked on a rolled-back handle whose cell is full and whose
\* mutex is not poisoned: the panic is the state assertion's.
C10_Witness ==
    /\ ret = Ret("execute", calls, "fault", <<>>)
    /\ state = Rolledback
    /\ conn = "Some"
    /\ ~poisoned
    /\ IdxOf(wire, ret.call) = {}


----------------------------------------------------------------------------
\* The cell on its own: take_conn and return_conn called in any order on a
\* cell that starts full, by a caller that survives their panics

CellOutcome(op, r) ==
    /\ conn' = r.conn
    /\ poisoned' = r.poisoned
    /\ trace' = Append(trace, [op |-> op, fault |-> r.fault])
    /\ ret' = Ret(op, Len(trace) + 1, IF r.fault THEN "fault" ELSE "ok", <<>>)
    /\ UNCHANGED <<CALL_COUNT, handle, trans_name, state, done, chan, ops, wire, calls>>
    /\ UNCHANGED <<news, handed, native>>

cell_take ==
    /\ Len(trace) < MaxCellCalls
    /\ CellOutcome("take_conn", take_conn)

cell_return ==
    /\ Len(trace) < MaxCellCalls
    /\ CellOutcome("return_conn", return_conn(conn))

NextCell == cell_take \/ cell_return

SpecCell == Init /\ [][NextCell]_allvars

\* The calls of tr alternate, starting with take_conn
Alternates(tr) ==
    \A i \in DOMAIN tr : tr[i].op = IF i % 2 = 1 THEN "take_conn" ELSE "return_conn"

C11_Step ==
    trace' /= trace =>
        LET e == trace'[Len(trace')] IN
        /\ Alternates(trace') => ~e.fault
        /\ (e.op = "take_conn" /\ conn = "None") => e.fault
        /\ (e.op = "return_conn" /\ conn = "Some") => e.fault

\* C11: on a cell that starts full, no call of a sequence of take_conn and
\* return_conn calls that strictly alternates starting with take_conn
\* panics; a take_conn on an empty cell panics and a return_conn on a full
\* cell panics.
C11_AlternationNeverFaults == [][C11_Step]_allvars

\* MaxCellCalls alternating calls were made, none panicked, and the cell is
\* as it started.
C11_Witness ==
    /\ Len(trace) = MaxCellCalls
    /\ Alternates(trace)
    /\ \A i \in DOMAIN trace : ~trace[i].fault
    /\ conn = IF MaxCellCalls % 2 = 0 THEN "Some" ELSE "None"
    /\ ~poisoned


----------------------------------------------------------------------------
RollbackOps == {"rollback", "rollback_internal"}
AcquiringOps == StatementOps \cup RollbackOps \cup {"commit"}

C12_Step ==
    \* the failed call left the state as it was, Open, and the handle usable
    /\ (ret'.op \in StatementOps /\ ret'.res = "err")
        => state' = state /\ state' = Open /\ handle' = "live"
    \* the next statement is accepted: it does not panic
    /\ (ret.op \in StatementOps /\ ret.res = "err")
        => \A op \in StatementOps : CalledNow(op) => ret'.res /= "fault"
    \* an explicit rollback of the Open transaction sets Rolledback
    /\ \A op \in RollbackOps : (CalledNow(op) /\ state = Open) => state' = Rolledback

\* C12: an execute, fetch_rows or fetch_many that returns the driver's error
\* leaves the state Open (nothing is rolled back for the caller); the next
\* statement is accepted, and an explicit rollback then sets Rolledback.
C12_FailedStatementKeepsOpen == [][C12_Step]_vars

\* execute failed in call 1, call 2 ran a statement, call 3 was rollback and
\* the state is Rolledback.
C12_Witness ==
    /\ state = Rolledback
    /\ ret = Ret("rollback", 3, "ok", <<>>)
    /\ \E i, j, k \in DOMAIN wire :
        /\ wire[i].verb = "execute" /\ wire[i].call = 1 /\ wire[i].reply = "err"
        /\ wire[j].call = 2 /\ wire[j].reply /= "pending"
        /\ wire[k].verb = "ROLLBACK TRANSACTION" /\ wire[k].call = 3

\* The places that own the physical connection: the cell, and every future
\* that holds it in its local `conn`
Owners ==
    (IF conn = "Some" THEN 1 ELSE 0) + Cardinality({s \in Slots : ops[s].local_conn})

\* A statement the driver still owes a reply to, whose future is gone
Abandoned ==
    \E i \in DOMAIN wire :
        /\ wire[i].reply = "pending"
        /\ \A s \in Slots : ops[s].kind = "idle" \/ ops[s].w /= i

\* C15: in every reachable state the connection is in exactly one place, the
\* cell or the one operation running a statement: never both, never two
\* operations, never neither.  Stated for the states in which no future was
\* abandoned, where dropping the future is what drops the connection.
C15_ExactlyOneOwner == ~Abandoned => Owners = 1

C16_Step ==
    Abandoned =>
        /\ conn = "None"
        /\ conn' = "None"
        /\ Abandoned'
        /\ \A op \in AcquiringOps :
            CalledNow(op) =>
                /\ wire' = wire
                /\ \/ ret'.res = "fault"
                   \/ op \in RollbackOps /\ state = Rolledback /\ ret'.res = "ok"

----------------------------------------------------------------------------
\* The statement each kind of future hands to the driver
VerbOf(kind) ==
    CASE kind = "new" -> "BEGIN TRANSACTION"
      [] kind = "commit" -> "COMMIT TRANSACTION"
      [] kind \in RollbackOps -> "ROLLBACK TRANSACTION"
      [] kind = "execute" -> "execute"
      [] kind \in {"fetch_rows", "fetch_many"} -> "query"
\* Its text: the next item of the caller's statements, or the transaction name
ArgOf(f, name) ==
    IF f.kind \in StatementOps THEN f.fetches[Len(f.results) + 1] ELSE name

\* BEGIN is first and nowhere else, COMMIT or ROLLBACK is last, and the
\* statements lie in the order of the calls that issued them; only a
\* fetch_many batch puts more than one statement on the wire
C17_Order ==
    /\ wire /= <<>> => wire[1] = [Stmt("BEGIN TRANSACTION", trans_name, 0)
                                     EXCEPT !.reply = wire[1].reply]
    /\ \A i \in DOMAIN wire :
        /\ wire[i].verb = "BEGIN TRANSACTION" => i = 1
        /\ wire[i].verb \in {"COMMIT TRANSACTION", "ROLLBACK TRANSACTION"} => i = Len(wire)
    /\ \A i, j \in DOMAIN wire :
        i < j => /\ wire[i].call <= wire[j].call
                 /\ wire[i].call = wire[j].call
                      => wire[i].verb = "query" /\ wire[j].verb = "query"

C17_Step ==
    \* what was sent stays as sent
    /\ Len(wire') \in {Len(wire), Len(wire) + 1}
    /\ \A i \in DOMAIN wire : [wire'[i] EXCEPT !.reply = "pending"]
                              = [wire[i] EXCEPT !.reply = "pending"]
    \* a new statement is the next statement of the future that awaits it
    /\ Len(wire') = Len(wire) + 1
        => \E s \in Slots :
            /\ ops'[s].kind /= "idle"
            /\ ops'[s].w = Len(wire')
            /\ wire'[Len(wire')] =
                 Stmt(VerbOf(ops'[s].kind), ArgOf(ops'[s], trans_name'), ops'[s].call)
    \* a call that does not return at once has sent its first statement
    /\ \A s \in Slots :
        (ops[s].kind = "idle" /\ ops'[s].kind /= "idle")
        => Len(wire') = Len(wire) + 1 /\ ops'[s].w = Len(wire')
    /\ C17_Order'

\* C17: the driver receives BEGIN TRANSACTION first, then the statement of
\* each execute / fetch_rows and the items of each fetch_many batch in call
\* order and batch order, then COMMIT or ROLLBACK, if any, last: nothing is
\* reordered, sent twice, or sent after COMMIT / ROLLBACK.
C17_WireFollowsCalls == [][C17_Step]_vars

\* BEGIN, an execute, a fetch_rows and COMMIT reached the driver in the order
\* of calls 1, 2, 3.
C17_Witness ==
    /\ Len(wire) = 4
    /\ wire[1].verb = "BEGIN TRANSACTION"
    /\ wire[2].verb = "execute" /\ wire[2].call = 1
    /\ wire[3].verb = "query" /\ wire[3].call = 2
    /\ wire[4].verb = "COMMIT TRANSACTION" /\ wire[4].call = 3
    /\ \A i \in DOMAIN wire : wire[i].reply = "ok"
    /\ handle = "dropped"

C18_Step == state \in {Commited, Rolledback} => state' = state

\* C18: once the state is Commited or Rolledback no step changes it; in
\* particular nothing takes it back to Open.
C18_TerminalStatesAreFinal == [][C18_Step]_vars

\* A handle rolled back by its first call took further calls and was torn
\* down, still Rolledback.
C18_Witness ==
    /\ state = Rolledback
    /\ handle = "dropped"
    /\ calls >= 2
    /\ \E i \in Verbs("ROLLBACK TRANSACTION") : wire[i].call = 1 /\ wire[i].reply /= "pending"
    /\ ret.op = "commit"
    /\ ret.res = "fault"

\* The step is the teardown of a handle the caller owns
TornDownNow == handle = "live" /\ handle' = "dropped" /\ calls' = calls

C19_Step ==
    TornDownNow =>
        /\ chan' = Append(chan, state = Open)
        /\ wire' = wire
        /\ conn' = conn
        /\ poisoned' = poisoned
        /\ state' = state
        /\ ops' = ops

\* C19: the teardown of a handle sends the completion signal and does
\* nothing else: no statement is issued, the cell is not touched and the
\* state stays as it is, also when it is Open.
C19_TeardownOnlySignals == [][C19_Step]_vars

\* An Open handle was torn down: true was signalled, the cell is full and no
\* ROLLBACK was sent.
C19_Witness ==
    /\ handle = "dropped"
    /\ state = Open
    /\ chan = <<TRUE>>
    /\ conn = "Some"
    /\ wire /= <<>>
    /\ wire[1].reply = "ok"
    /\ \A i \in DOMAIN wire : wire[i].verb \notin {"ROLLBACK", "ROLLBACK TRANSACTION"}

\* C20: when BEGIN TRANSACTION fails, new returns the driver's error, the
\* handle it had built is dropped in state Open without ever reaching the
\* caller, and exactly one value, true, is on the completion channel.
C20_FailedBeginSignalsTrue ==
    (ret.op = "new" /\ ret.res = "err")
    => /\ handle = "dropped"
       /\ state = Open
       /\ chan = <<TRUE>>
       /\ done = "None"
       /\ calls = 0
       /\ ret.val = <<1>>
       /\ wire = <<[Stmt("BEGIN TRANSACTION", trans_name, 0) EXCEPT !.reply = "err"]>>

\* new has returned the error of its failed BEGIN and true was signalled.
C20_Witness ==
    /\ ret = Ret("new", 0, "err", <<1>>)
    /\ wire[1].reply = "err"
    /\ chan = <<TRUE>>


----------------------------------------------------------------------------
\* Concurrent MssqlTransaction::new calls of one process: each is on its own
\* cell and channel, and all share the static CALL_COUNT

\* The counter values handed to the calls that have returned
Returned == {handed[i].n : i \in {j \in DOMAIN handed : handed[j].returned}}

\* new, up to the .await of BEGIN TRANSACTION: the name is taken first
caller_new(c) ==
    /\ news[c].pc = "idle"
    /\ Len(handed) < MaxNews
    /\ CALL_COUNT' = fetch_add_stores
    /\ news' = [news EXCEPT ![c] = [pc |-> "awaiting", name |-> format_name(get_trans_count)]]
    /\ handed' = Append(handed, [n |-> get_trans_count, by |-> c, returned |-> FALSE,
                                 after |-> Returned])
    /\ UNCHANGED <<vars_but_count, trace, native>>

\* new, from the driver's reply to its return: Ok(this) or the error
caller_new_resume(c) ==
    /\ news[c].pc = "awaiting"
    /\ \E reply \in SimpleReplies :
        news' = [news EXCEPT ![c].pc = IF new_result(reply) = "ok" THEN "holding" ELSE "idle"]
    /\ handed' = [i \in DOMAIN handed |->
                    IF handed[i].by = c THEN [handed[i] EXCEPT !.returned = TRUE]
                    ELSE handed[i]]
    /\ UNCHANGED <<CALL_COUNT, vars_but_count, trace, native>>

\* The caller drops the handle it holds
caller_drop(c) ==
    /\ news[c].pc = "holding"
    /\ news' = [news EXCEPT ![c].pc = "idle"]
    /\ UNCHANGED <<CALL_COUNT, vars_but_count, trace, handed, native>>

NextCount ==
    \/ \E c \in Callers : caller_new(c)
    \/ \E c \in Callers : caller_new_resume(c)
    \/ \E c \in Callers : caller_drop(c)

SpecCount == Init /\ [][NextCount]_allvars

\* C13: under any interleaving of concurrent new calls the counter value
\* handed to a call differs from every value handed out before (so the names
\* t_N differ and none is used again) and is larger than every value handed
\* to a call that had returned when this one was made.
C13_NamesAreUnique ==
    /\ \A i, j \in DOMAIN handed :
        i /= j => /\ handed[i].n /= handed[j].n
                  /\ format_name(handed[i].n) /= format_name(handed[j].n)
    /\ \A i \in DOMAIN handed : \A m \in handed[i].after : handed[i].n > m
    /\ \A c \in Callers :
        news[c].pc /= "idle" =>
            \E i \in DOMAIN handed : handed[i].by = c /\ news[c].name = format_name(handed[i].n)

\* Two new calls are in flight at once under different names, made after an
\* earlier call had returned.
C13_Witness ==
    /\ \A c \in Callers : news[c].pc = "awaiting"
    /\ \A c, d \in Callers : c /= d => news[c].name /= news[d].name
    /\ \E i \in DOMAIN handed : handed[i].after /= {}

-----------------------------------------------------------------------------
\* The native-pool clients: fetch_many of MySqlClient, PostgresClient and
\* SqliteClient.  A slot holds one fetch_many future and its locals `conn`
\* and `datasets`.

\* The batches passed to a native-pool client: one of every length up to
\* MaxBatch
NativeBatches == {Alternating("SELECT A", n) : n \in 0..MaxBatch}

\* sqlx::query(sql); the Postgres client adds .persistent(false)
persistent(backend) == backend /= "postgres"
Query(backend, sql, c) ==
    [conn |-> c, sql |-> sql, persistent |-> persistent(backend), reply |-> "pending"]

\* The statements of the call in slot s, and of no call that returned before
\* this step
Kept(s) == [o \in Slots |-> IF o /= s /\ fetching[o].kind = "idle" THEN <<>> ELSE served[o]]

fetch_all_error_skipped(reply) == FALSE
\* query.fetch_all(&mut *conn).await? : the ? returns the error at once
fetch_all_returns_err(reply) == ~reply.ok

\* The future ends: its local `conn`, a PoolConnection, is dropped and goes
\* back to the pool
released(f) ==
    IF f.conn = 0 THEN pool ELSE [pool EXCEPT !.idle = @ \cup {f.conn}]

\* fetch_many(&self, fetches): up to the .await of self.pool.acquire()
native_fetch_many(s, backend, fetches) ==
    /\ pool.backend \in {"unset", backend}
    /\ fetching[s].kind = "idle"
    /\ \A o \in Slots : o < s => fetching[o].kind /= "idle"
    /\ fetch_calls < MaxFetchCalls
    /\ fetch_calls' = fetch_calls + 1
    /\ pool' = [pool EXCEPT !.backend = backend]
    /\ fetching' = [fetching EXCEPT ![s] =
            [kind |-> backend, call |-> fetch_calls + 1, pc |-> "acquire",
             conn |-> 0, fetches |-> fetches, i |-> 0, datasets |-> <<>>]]
    /\ served' = [Kept(s) EXCEPT ![s] = <<>>]
    /\ answer' = NoAnswer
    /\ UNCHANGED <<vars, trace, news, handed>>

mysql_fetch_many(s, fetches) == native_fetch_many(s, "mysql", fetches)
postgres_fetch_many(s, fetches) == native_fetch_many(s, "postgres", fetches)
sqlite_fetch_many(s, fetches) == native_fetch_many(s, "sqlite", fetches)

\* self.pool.acquire().await? fails: the error is returned, nothing ran
acquire_failed(s) ==
    LET f == fetching[s] IN
    /\ f.pc = "acquire"
    /\ fetching' = [fetching EXCEPT ![s] = NoFetch]
    /\ served' = Kept(s)
    /\ answer' = [slot |-> s, call |-> f.call, res |-> "err", val |-> <<>>]
    /\ UNCHANGED <<pool, fetch_calls, vars, trace, news, handed>>

\* self.pool.acquire().await? yields an idle connection; the loop sends the
\* first statement on it, or, for an empty batch, Ok(datasets) is returned
acquired(s) ==
    LET f == fetching[s] IN
    /\ f.pc = "acquire"
    /\ \E c \in pool.idle :
        IF f.fetches = <<>>
        THEN /\ fetching' = [fetching EXCEPT ![s] = NoFetch]
             /\ served' = Kept(s)
             /\ answer' = [slot |-> s, call |-> f.call, res |-> "ok", val |-> f.datasets]
             /\ UNCHANGED pool
        ELSE /\ pool' = [pool EXCEPT !.idle = @ \ {c}]
             /\ served' = [Kept(s) EXCEPT ![s] = Append(@, Query(f.kind, f.fetches[1], c))]
             /\ fetching' = [fetching EXCEPT ![s] =
                    [f EXCEPT !.pc = "fetch_all", !.conn = c, !.i = 1]]
             /\ answer' = NoAnswer
    /\ UNCHANGED <<fetch_calls, vars, trace, news, handed>>

\* query.fetch_all(&mut *conn).await? replies: the error is returned, or the
\* rows are pushed and the loop sends the next statement on the same `conn`,
\* or, after the last one, Ok(datasets) is returned
fetch_all_resume(s) ==
    LET f == fetching[s]
        w == Len(served[s])
    IN
    /\ f.pc = "fetch_all"
    /\ \E reply \in SimpleReplies :
        LET served1 == [Kept(s) EXCEPT ![s][w].reply = IF reply.ok THEN "ok" ELSE "err"]
            datasets1 == IF reply.ok THEN Append(f.datasets, w) ELSE f.datasets
        IN
        IF fetch_all_returns_err(reply)
        THEN /\ served' = served1
             /\ pool' = released(f)
             /\ fetching' = [fetching EXCEPT ![s] = NoFetch]
             /\ answer' = [slot |-> s, call |-> f.call, res |-> "err", val |-> <<w>>]
        ELSE IF f.i < Len(f.fetches)
        THEN /\ served' = [served1 EXCEPT ![s] =
                    Append(@, Query(f.kind, f.fetches[f.i + 1], f.conn))]
             /\ fetching' = [fetching EXCEPT ![s] =
                    [f EXCEPT !.i = f.i + 1, !.datasets = datasets1]]
             /\ answer' = NoAnswer
             /\ UNCHANGED pool
        ELSE /\ served' = served1
             /\ pool' = released(f)
             /\ fetching' = [fetching EXCEPT ![s] = NoFetch]
             /\ answer' = [slot |-> s, call |-> f.call, res |-> "ok", val |-> datasets1]
    /\ UNCHANGED <<fetch_calls, vars, trace, news, handed>>

\* The caller drops the fetch_many future before it completed
native_cancel(s) ==
    LET f == fetching[s] IN
    /\ f.kind /= "idle"
    /\ pool' = released(f)
    /\ fetching' = [fetching EXCEPT ![s] = NoFetch]
    /\ served' = [Kept(s) EXCEPT ![s] = <<>>]
    /\ answer' = NoAnswer
    /\ UNCHANGED <<fetch_calls, vars, trace, news, handed>>

NextPool ==
    \/ \E s \in Slots, fetches \in NativeBatches : mysql_fetch_many(s, fetches)
    \/ \E s \in Slots, fetches \in NativeBatches : postgres_fetch_many(s, fetches)
    \/ \E s \in Slots, fetches \in NativeBatches : sqlite_fetch_many(s, fetches)
    \/ \E s \in Slots : acquire_failed(s)
    \/ \E s \in Slots : acquired(s)
    \/ \E s \in Slots : fetch_all_resume(s)
    \/ \E s \in Slots : native_cancel(s)

SpecPool == Init /\ [][NextPool]_allvars

\* C14: a native-pool fetch_many holds one connection, checked out to it
\* alone, from its first statement to its end; its statements run on that
\* connection and are the batch's, in input order; when all succeed it
\* returns one row set per statement in input order; when one fails it
\* returns that error and that statement is the last it ran.  (A call
\* whose future the caller dropped returns nothing.)
C14_Step ==
    \A s \in Slots :
        LET f == fetching[s]
            g == fetching'[s]
            ran == served'[s]
            n == Len(ran)
        IN
        /\ f.pc = "acquire" /\ answer'.slot = s =>
            /\ ran = <<>>
            /\ answer'.res = "ok" => f.fetches = <<>> /\ answer'.val = <<>>
        /\ f.pc = "fetch_all" /\ (g.kind /= "idle" \/ answer'.slot = s) =>
            /\ n \in 1..Len(f.fetches)
            /\ \A i \in 1..n :
                /\ ran[i].conn = f.conn
                /\ ran[i].sql = f.fetches[i]
                /\ i < n => ran[i].reply = "ok"
            /\ g.kind /= "idle" =>
                /\ g.call = f.call /\ g.conn = f.conn
                /\ f.conn \notin pool'.idle
                /\ \A o \in Slots \ {s} : fetching'[o].conn /= f.conn
                /\ ran[n].reply = "pending"
                /\ answer'.slot /= s
            /\ answer'.slot = s =>
                /\ answer'.call = f.call
                /\ answer'.res = "ok" =>
                    /\ n = Len(f.fetches)
                    /\ ran[n].reply = "ok"
                    /\ answer'.val = [i \in 1..n |-> i]
                /\ answer'.res = "err" =>
                    /\ ran[n].reply = "err"
                    /\ answer'.val = <<n>>
                /\ answer'.res \in {"ok", "err"}
C14_NativeFetchManyOneConnection == [][C14_Step]_allvars

\* A call returned the error of its first statement at once, no second
\* statement sent, while another call was running the second statement of
\* its batch on another connection of the pool.
C14_Witness ==
    /\ answer.res = "err"
    /\ answer.val = <<1>>
    /\ \E o \in Slots :
        /\ fetching[o].i = 2
        /\ Len(served[o]) = 2
        /\ served[o][1].reply = "ok"
        /\ served[o][1].conn = served[o][2].conn
        /\ served[o][1].conn /= served[answer.slot][1].conn

====
